---- MODULE Spec2Model ----
(***************************************************************************)
(* Model of the chatbot-rag retrieval engine (backend/rag_engine.py) and   *)
(* of the parts of the HTTP layer (backend/main.py) that decide whether a  *)
(* query reaches the engine.                                               *)
(*                                                                         *)
(* Texts are sequences of one-character strings.  Floating point values    *)
(* are fixed-point integers: a term frequency is count/len scaled by       *)
(* TfScale, an IDF is ln(N/df) scaled by 100 (LnTab), a vector entry is    *)
(* their product, a norm is the integer square root of the sum of squares  *)
(* and a similarity score is dot/(qnorm*dnorm) scaled by ScoreScale.       *)
(* md5 is modelled as collision free: a hash key is the hashed value.      *)
(***************************************************************************)
EXTENDS Integers, Sequences, FiniteSets, TLC

(***************************************************************************)
(* Characters and strings                                                  *)
(***************************************************************************)
AsciiLower == {"a", "b", "c", "z"}
AsciiUpper == {"A", "B"}
Digits == {"1", "2"}
NonAsciiLetters == {"é"}
Whitespace == {" ", "\n"}
SentencePunct == {".", "!", "?"}

\* ord() of the lowercase letters, for the order of sorted(all_words)
CharCode(c) ==
    CASE c = "a" -> 97 [] c = "b" -> 98 [] c = "c" -> 99 [] c = "z" -> 122
      [] OTHER -> 0

\* str.lower() on one character
LowerChar(c) == CASE c = "A" -> "a" [] c = "B" -> "b" [] OTHER -> c

Lower(text) == [i \in DOMAIN text |-> LowerChar(text[i])]

\* a \b that looks at ASCII letters only
IsAsciiLetter(c) == c \in AsciiLower \cup AsciiUpper

\* \w of the re module on str patterns: letters of any script, digits, underscore
IsWordChar(c) ==
    c \in AsciiLower \cup AsciiUpper \cup Digits \cup NonAsciiLetters \cup {"_"}

\* Python's s[i:j] on a sequence, i and j 0-based and possibly negative or
\* past the end
PyIndex(n, i) == IF i < 0 THEN (IF i + n < 0 THEN 0 ELSE i + n)
                 ELSE IF i > n THEN n ELSE i

PySlice(s, i, j) == SubSeq(s, PyIndex(Len(s), i) + 1, PyIndex(Len(s), j))

\* s[:n]
Prefix(s, n) == PySlice(s, 0, n)

RECURSIVE LStrip(_)
LStrip(s) == IF s # <<>> /\ Head(s) \in Whitespace THEN LStrip(Tail(s)) ELSE s

RECURSIVE RStrip(_)
RStrip(s) ==
    IF s # <<>> /\ s[Len(s)] \in Whitespace
    THEN RStrip(SubSeq(s, 1, Len(s) - 1)) ELSE s

\* str.strip()
Strip(s) == RStrip(LStrip(s))

(***************************************************************************)
(* OptimizedTFIDF: pure parts                                              *)
(***************************************************************************)
\* a maximal run of word characters matches \b[a-z]{2,}\b when it is made of
\* a-z only and has at least two characters
FlushRun(cur, acc) ==
    IF Len(cur) >= 2 /\ \A k \in DOMAIN cur : cur[k] \in AsciiLower
    THEN Append(acc, cur) ELSE acc

RECURSIVE TokScan(_, _, _, _)
TokScan(s, i, cur, acc) ==
    IF i > Len(s) THEN FlushRun(cur, acc)
    ELSE IF IsWordChar(s[i]) THEN TokScan(s, i + 1, Append(cur, s[i]), acc)
    ELSE TokScan(s, i + 1, <<>>, FlushRun(cur, acc))

\* tokenize(text): re.findall(r'\b[a-z]{2,}\b', text.lower())
tokenize(text) == TokScan(Lower(text), 1, <<>>, <<>>)

\* str < str
RECURSIVE TokLess(_, _)
TokLess(a, b) ==
    IF a = <<>> THEN b # <<>>
    ELSE IF b = <<>> THEN FALSE
    ELSE IF CharCode(Head(a)) # CharCode(Head(b))
         THEN CharCode(Head(a)) < CharCode(Head(b))
    ELSE TokLess(Tail(a), Tail(b))

\* sorted(words)
RECURSIVE SortedWords(_)
SortedWords(S) ==
    IF S = {} THEN <<>>
    ELSE LET m == CHOOSE x \in S : \A y \in S \ {x} : TokLess(x, y)
         IN  <<m>> \o SortedWords(S \ {m})

SeqRange(s) == {s[i] : i \in DOMAIN s}

\* term frequencies are multiples of 1/6: exact for texts of 1, 2, 3 or 6 tokens
TfScale == 6

\* round(100 * ln(n)) for n = 1..24
LnTab == <<0, 69, 110, 139, 161, 179, 195, 208, 220, 230, 240, 248,
           256, 264, 271, 277, 283, 289, 294, 300, 304, 309, 314, 318>>

\* math.log(num_documents / df) if df > 0 else 0
Idf(n, df) == IF df > 0 THEN LnTab[n] - LnTab[df] ELSE 0

Count(tokens, w) == Cardinality({i \in DOMAIN tokens : tokens[i] = w})

\* compute_tf(tokens): token -> count / token_count
compute_tf(tokens) ==
    [w \in SeqRange(tokens) |-> (Count(tokens, w) * TfScale) \div Len(tokens)]

\* the vector built from a tf table: [0.0] * vocab_size, then
\* vector[vocabulary[token]] = tf * idf for the tokens accepted by `known`
TfIdfVector(tf, vocab, idf, known) ==
    [i \in 1..Len(vocab) |->
        IF vocab[i] \in DOMAIN tf /\ vocab[i] \in known
        THEN tf[vocab[i]] * idf[vocab[i]] ELSE 0]

RECURSIVE SumSeq(_)
SumSeq(s) == IF s = <<>> THEN 0 ELSE Head(s) + SumSeq(Tail(s))

Min(a, b) == IF a < b THEN a ELSE b

\* sum(a * b for a, b in zip(u, v)): zip stops at the shorter one
Dot(u, v) == SumSeq([i \in 1..Min(Len(u), Len(v)) |-> u[i] * v[i]])

\* math.sqrt, rounded down: the r in lo..hi with r*r <= n < (r+1)*(r+1)
RECURSIVE SqrtIn(_, _, _)
SqrtIn(n, lo, hi) ==
    IF lo >= hi THEN lo
    ELSE LET mid == (lo + hi + 1) \div 2
         IN  IF mid * mid <= n THEN SqrtIn(n, mid, hi) ELSE SqrtIn(n, lo, mid - 1)

Sqrt(n) == SqrtIn(n, 0, Min(n, 40000))

\* math.sqrt(sum(x * x for x in vector))
Norm(v) == Sqrt(Dot(v, v))

(***************************************************************************)
(* Chunker                                                                 *)
(***************************************************************************)
CHUNK_SIZE == 1000
CHUNK_OVERLAP == 200

\* match.end() of the match of [.!?]\s+ that starts at 1-based position p:
\* the 1-based position of the last character of the whitespace run
RECURSIVE WsRunEnd(_, _)
WsRunEnd(text, i) ==
    IF i + 1 <= Len(text) /\ text[i + 1] \in Whitespace
    THEN WsRunEnd(text, i + 1) ELSE i

\* sentence_ends: match.end() of every match of [.!?]\s+ in the text
SentenceEnds(text) ==
    {WsRunEnd(text, p + 1) :
        p \in {i \in 1..(Len(text) - 1) :
                 text[i] \in SentencePunct /\ text[i + 1] \in Whitespace}}

\* the first sentence end that fits instead of the last
SetMin(S) == CHOOSE x \in S : \A y \in S : x <= y

SetMax(S) == CHOOSE x \in S : \A y \in S : y <= x

\* the end of the window that starts at `start`: the last sentence end in
\* (start + chunk_size // 2, start + chunk_size], the raw end if there is none
\* or if the raw end is not inside the text
WindowEnd(text, chunk_size, start) ==
    LET end == start + chunk_size
        fits == {e \in SentenceEnds(text) :
                    start + (chunk_size \div 2) < e /\ e <= end}
    IN  IF end < Len(text) /\ fits # {} THEN SetMax(fits) ELSE end

\* one iteration of the while loop: the chunks and the start after it
ChunkWindow(text, chunk_size, overlap, start, chunks) ==
    LET end == WindowEnd(text, chunk_size, start)
        chunk == Strip(PySlice(text, start, end))
    IN  [chunks |-> IF chunk # <<>> THEN Append(chunks, chunk) ELSE chunks,
         start |-> end - overlap]

RECURSIVE ChunkLoop(_, _, _, _, _)
ChunkLoop(text, chunk_size, overlap, start, chunks) ==
    IF start < Len(text)
    THEN LET w == ChunkWindow(text, chunk_size, overlap, start, chunks)
         IN  ChunkLoop(text, chunk_size, overlap, w.start, w.chunks)
    ELSE chunks

\* _optimized_chunk_text(text, chunk_size, overlap)
optimized_chunk_text(text, chunk_size, overlap) ==
    IF Len(text) <= chunk_size THEN <<text>>
    ELSE ChunkLoop(text, chunk_size, overlap, 0, <<>>)

(***************************************************************************)
(* Caches: a dict in insertion order is a sequence of key/value entries    *)
(***************************************************************************)
CacheHas(cache, key) == \E i \in DOMAIN cache : cache[i].key = key

CacheGet(cache, key) == cache[CHOOSE i \in DOMAIN cache : cache[i].key = key].val

\* cache[key] = val: a new key goes to the end, a key already there keeps
\* its place
CacheSet(cache, key, val) ==
    IF CacheHas(cache, key)
    THEN [i \in DOMAIN cache |->
            IF cache[i].key = key THEN [key |-> key, val |-> val] ELSE cache[i]]
    ELSE Append(cache, [key |-> key, val |-> val])

\* an eviction that deletes the last `drop` keys instead of the first
CachePutDropNewest(cache, key, val, max, drop) ==
    LET put == CacheSet(cache, key, val)
    IN  IF Len(put) > max THEN SubSeq(put, 1, Len(put) - Min(drop, Len(put)))
        ELSE put

\* cache[key] = val; if len(cache) > max: delete the first `drop` keys
CachePut(cache, key, val, max, drop) ==
    LET put == CacheSet(cache, key, val)
    IN  IF Len(put) > max THEN SubSeq(put, Min(drop, Len(put)) + 1, Len(put))
        ELSE put

VECTOR_CACHE_MAX == 1000
VECTOR_CACHE_DROP == 100
SIMILARITY_CACHE_MAX == 500
SIMILARITY_CACHE_DROP == 100
RESPONSE_CACHE_MAX == 200
RESPONSE_CACHE_DROP == 50
TOKENIZE_CACHE_MAX == 10000

\* a cache that drops the text inserted first, read again or not
FifoTouch(lru, text) ==
    IF \E i \in DOMAIN lru : lru[i] = text THEN lru
    ELSE IF Len(lru) >= TOKENIZE_CACHE_MAX THEN Append(Tail(lru), text)
    ELSE Append(lru, text)

\* functools.lru_cache(maxsize) as the texts it holds, least recently used
\* first: a call moves its text to the end and drops the head when full
LruTouch(lru, text) ==
    LET rest == SelectSeq(lru, LAMBDA t : t # text)
        put == Append(rest, text)
    IN  IF Len(put) > TOKENIZE_CACHE_MAX THEN Tail(put) ELSE put

RECURSIVE LruTouchAll(_, _)
LruTouchAll(lru, texts) ==
    IF texts = <<>> THEN lru
    ELSE LruTouchAll(LruTouch(lru, Head(texts)), Tail(texts))

(***************************************************************************)
(* Inputs                                                                  *)
(***************************************************************************)
Text_aa_bb == <<"a", "a", " ", "b", "b">>
Text_bb_cc == <<"b", "b", " ", "c", "c">>
Text_cc_aa == <<"c", "c", " ", "a", "a">>

Doc(name, text) ==
    [file_name |-> name, file_path |-> name, title |-> name,
     content |-> text, content_type |-> "text"]

DocA == Doc("a.txt", Text_aa_bb)
DocA2 == Doc("a2.txt", Text_aa_bb)
DocB == Doc("b.txt", Text_bb_cc)
DocC == Doc("c.txt", Text_cc_aa)

\* the document lists handed to index_documents
DocLists == {<<>>, <<DocA, DocB>>, <<DocA, DocA2, DocB>>, <<DocB, DocC>>}

Queries == {<<"a", "a">>, <<"c", "c">>}

\* n_results: the default, which is also what chat passes
DEFAULT_N_RESULTS == 5
TopKs == {DEFAULT_N_RESULTS}

\* what the completion service does with one request: an answer, an answer
\* that is empty after strip(), or an exception
GroqOutcomes == {"g1", "", "error"}

MaxIndexCalls == 2

\* a document dict without the 'content' key
DocBad ==
    [file_name |-> "bad.txt", file_path |-> "bad.txt", title |-> "bad.txt",
     content_type |-> "text"]

\* document lists, one of them with a malformed document
IndexDocLists ==
    {<<DocA, DocB>>, <<DocA, DocA2, DocB>>, <<DocB, DocC>>, <<DocA, DocBad, DocB>>}

\* queries, one of them the text of a chunk
IndexQueries == {<<"a", "a">>, Text_aa_bb}

(***************************************************************************)
(* State                                                                   *)
(***************************************************************************)
VARIABLES
    \* OptimizedTFIDF
    vocabulary,             \* the words in index order: vocabulary[w] = position - 1
    document_frequencies,   \* word -> count
    idf_values,             \* word -> idf
    tf_idf_vectors,         \* one vector per fitted text
    tfidf_documents,        \* OptimizedTFIDF.documents
    vector_cache,           \* _vector_cache
    tokenize_cache,         \* the lru_cache of tokenize
    \* FastSimpleRAGEngine
    documents,              \* the in-memory chunk records
    indexed,
    doc_norms,
    response_cache,
    similarity_cache,
    groq_client,            \* TRUE when a client was built in __init__
    \* files
    db_rows,                \* the rows of the documents table, by id
    db_seq,                 \* the last AUTOINCREMENT id handed out
    model_file,             \* cache/tfidf_model.pkl: <<>> or <<its content>>
    \* backend/main.py globals
    rag_engine,             \* TRUE when the global is not None
    is_initialized,
    started,                \* the startup event has run
    \* the last call and what it returned
    last,
    n_index,                \* index_documents calls so far
    \* one call of _optimized_chunk_text, window by window
    c_pc, c_text, c_size, c_overlap, c_start, c_chunks, c_windows,
    c_spans,                \* the <<start, end>> of every window so far
    \* one index_documents call that runs beside the queries, statement by statement
    i_pc, i_docs, i_texts,
    \* one call of tokenize
    t_pc, t_text, t_tokens,
    n_chat                  \* chat calls of the client that never repeats a question

tfidfVars == <<vocabulary, document_frequencies, idf_values, tf_idf_vectors,
               tfidf_documents>>
cacheVars == <<vector_cache, tokenize_cache, response_cache, similarity_cache>>
corpusVars == <<documents, indexed, doc_norms>>
fileVars == <<db_rows, db_seq, model_file>>
httpVars == <<rag_engine, is_initialized, started>>
chunkVars == <<c_pc, c_text, c_size, c_overlap, c_start, c_chunks, c_windows,
               c_spans>>
concVars == <<i_pc, i_docs, i_texts>>
tokVars == <<t_pc, t_text, t_tokens>>

vars == <<tfidfVars, cacheVars, corpusVars, groq_client, fileVars, httpVars,
          last, n_index, chunkVars, concVars, tokVars, n_chat>>

NoCall == [op |-> "none", arg |-> <<>>, ret |-> <<>>]

\* FastSimpleRAGEngine.__init__ and OptimizedTFIDF.__init__: the fields of a
\* new engine
EngineInit ==
    /\ vocabulary = <<>>
    /\ document_frequencies = <<>>
    /\ idf_values = <<>>
    /\ tf_idf_vectors = <<>>
    /\ tfidf_documents = <<>>
    /\ vector_cache = <<>>
    /\ tokenize_cache = <<>>
    /\ documents = <<>>
    /\ indexed = FALSE
    /\ doc_norms = <<>>
    /\ response_cache = <<>>
    /\ similarity_cache = <<>>

ChunkIdle ==
    /\ c_pc = "idle" /\ c_text = <<>> /\ c_size = 0 /\ c_overlap = 0
    /\ c_start = 0 /\ c_chunks = <<>> /\ c_windows = 0 /\ c_spans = <<>>

ConcIdle == i_pc = "idle" /\ i_docs = <<>> /\ i_texts = <<>>

TokIdle == t_pc = "idle" /\ t_text = <<>> /\ t_tokens = <<>>

\* a new engine on a machine with no database and no cache directory yet; the
\* module globals of main.py as the import leaves them
ProcessInit ==
    /\ EngineInit
    /\ groq_client \in BOOLEAN
    /\ db_rows = <<>> /\ db_seq = 0 /\ model_file = <<>>
    /\ rag_engine = FALSE /\ is_initialized = FALSE /\ started = FALSE
    /\ last = NoCall
    /\ n_index = 0
    /\ n_chat = 0

Init == ProcessInit /\ ChunkIdle /\ ConcIdle /\ TokIdle

(***************************************************************************)
(* OptimizedTFIDF.fit and transform                                        *)
(***************************************************************************)
\* all_tokens of fit
AllTokens(texts) == [i \in DOMAIN texts |-> tokenize(texts[i])]

\* {word: i for i, word in enumerate(sorted(all_words))}
FitVocabulary(texts) ==
    SortedWords(UNION {SeqRange(AllTokens(texts)[i]) : i \in DOMAIN texts})

\* the loop `self.document_frequencies[token] += 1` over the unique tokens of
\* every text, on the table df as the loop finds it
FitDocumentFrequencies(texts, df) ==
    LET all_tokens == AllTokens(texts)
        all_words == UNION {SeqRange(all_tokens[i]) : i \in DOMAIN texts}
    IN  [w \in DOMAIN df \cup all_words |->
            (IF w \in DOMAIN df THEN df[w] ELSE 0)
            + Cardinality({i \in DOMAIN texts : w \in SeqRange(all_tokens[i])})]

\* the loop over document_frequencies.items() that sets idf_values
FitIdfValues(num_documents, df, idf) ==
    [w \in DOMAIN idf \cup DOMAIN df |->
        IF w \in DOMAIN df THEN Idf(num_documents, df[w]) ELSE idf[w]]

\* the loop that builds tf_idf_vectors
FitVectors(texts, vocab, idf) ==
    [i \in DOMAIN texts |->
        TfIdfVector(compute_tf(tokenize(texts[i])), vocab, idf, SeqRange(vocab))]

\* docs_hash == cached docs_hash on an existing cache file
ModelCached(texts) == model_file # <<>> /\ model_file[1].docs_hash = texts

\* fit(documents): the fields after the call.  `stored` tells whether the
\* pickle of the new model could be written
fit(texts, stored) ==
    IF ModelCached(texts)
    THEN [vocabulary |-> model_file[1].vocabulary,
          document_frequencies |-> model_file[1].document_frequencies,
          documents |-> model_file[1].documents,
          tf_idf_vectors |-> model_file[1].tf_idf_vectors,
          idf_values |-> model_file[1].idf_values,
          tokenize_cache |-> tokenize_cache,
          model_file |-> model_file]
    ELSE
    LET vocab == FitVocabulary(texts)
        df == FitDocumentFrequencies(texts, document_frequencies)
        idf == FitIdfValues(Len(texts), df, idf_values)
        vectors == FitVectors(texts, vocab, idf)
        model == [docs_hash |-> texts, vocabulary |-> vocab,
                  document_frequencies |-> df, documents |-> texts,
                  tf_idf_vectors |-> vectors, idf_values |-> idf]
    IN  [vocabulary |-> vocab,
         document_frequencies |-> df,
         documents |-> texts,
         tf_idf_vectors |-> vectors,
         idf_values |-> idf,
         tokenize_cache |-> LruTouchAll(tokenize_cache, texts),
         model_file |-> IF stored THEN <<model>> ELSE model_file]

\* transform(text) with the given vector cache and tokenize cache: the vector
\* returned and the two caches after the call
transform(text, vcache, lru) ==
    IF CacheHas(vcache, text)
    THEN [vector |-> CacheGet(vcache, text), vector_cache |-> vcache,
          tokenize_cache |-> lru]
    ELSE LET vector == TfIdfVector(compute_tf(tokenize(text)), vocabulary,
                                   idf_values, DOMAIN idf_values)
         IN  [vector |-> vector,
              vector_cache |-> CachePut(vcache, text, vector,
                                        VECTOR_CACHE_MAX, VECTOR_CACHE_DROP),
              tokenize_cache |-> LruTouch(lru, text)]

(***************************************************************************)
(* FastSimpleRAGEngine.search_similar_documents                            *)
(***************************************************************************)
ScoreScale == 100

\* 1 / 0.01, the similarity a candidate has to exceed
MIN_SIMILARITY_INV == 100

\* dot_product / (query_norm * doc_norm), in units of 1 / ScoreScale
Similarity(qv, qn, dv, dn) ==
    IF dn = 0 THEN 0 ELSE (Dot(qv, dv) * ScoreScale) \div (qn * dn)

\* a filter without the threshold: every chunk with a norm is kept
NoThreshold(qv, qn, dv, dn) == dn # 0

\* similarity > 0.01
AboveThreshold(qv, qn, dv, dn) ==
    dn # 0 /\ Dot(qv, dv) * MIN_SIMILARITY_INV > qn * dn

\* a sort that is stable on the score alone: equal scores keep corpus order
TupleBeforeStable(p, q) == p[1] > q[1] \/ (p[1] = q[1] /\ p[2] < q[2])

\* the order of similarities.sort(reverse=True) on (similarity, i) tuples:
\* TRUE when p comes before q
TupleBefore(p, q) == p[1] > q[1] \/ (p[1] = q[1] /\ p[2] > q[2])

RECURSIVE SortTuples(_)
SortTuples(S) ==
    IF S = {} THEN <<>>
    ELSE LET m == CHOOSE x \in S : \A y \in S \ {x} : TupleBefore(x, y)
         IN  <<m>> \o SortTuples(S \ {m})

\* the (similarity, i) tuples that pass the filter, sorted; i counts from 1
Similarities(qv, qn) ==
    SortTuples({<<Similarity(qv, qn, tf_idf_vectors[i], doc_norms[i]), i>> :
        i \in {j \in 1..Min(Len(tf_idf_vectors), Len(doc_norms)) :
                 AboveThreshold(qv, qn, tf_idf_vectors[j], doc_norms[j])}})

SearchResult(doc, similarity) ==
    [content |-> doc.content,
     metadata |-> [file_name |-> doc.file_name, title |-> doc.title,
                   content_type |-> doc.content_type,
                   chunk_index |-> doc.chunk_index],
     similarity_score |-> similarity]

\* search_similar_documents(query, n_results) with the given caches: the list
\* returned and the caches after the call
search_similar_documents(query, n_results, simc, vcache, lru) ==
    LET same == [similarity_cache |-> simc, vector_cache |-> vcache,
                 tokenize_cache |-> lru]
        key == <<query, n_results>>
    IN
    IF ~indexed THEN [ret |-> <<>>] @@ same
    ELSE IF CacheHas(simc, key) THEN [ret |-> CacheGet(simc, key)] @@ same
    ELSE
    LET t == transform(query, vcache, lru)
        query_norm == Norm(t.vector)
        after == [similarity_cache |-> simc, vector_cache |-> t.vector_cache,
                  tokenize_cache |-> t.tokenize_cache]
    IN
    IF query_norm = 0 THEN [ret |-> <<>>] @@ after
    ELSE
    LET top == PySlice(Similarities(t.vector, query_norm), 0, n_results)
    IN
    \* self.documents[idx] raises IndexError: caught, [] returned
    IF \E k \in DOMAIN top : top[k][2] > Len(documents)
    THEN [ret |-> <<>>] @@ after
    ELSE
    LET results == [k \in DOMAIN top |->
                      SearchResult(documents[top[k][2]], top[k][1])]
    IN  [ret |-> results,
         similarity_cache |-> CachePut(simc, key, results, SIMILARITY_CACHE_MAX,
                                       SIMILARITY_CACHE_DROP),
         vector_cache |-> t.vector_cache,
         tokenize_cache |-> t.tokenize_cache]

(***************************************************************************)
(* Answer generation and chat                                              *)
(***************************************************************************)
\* the answers: kind tells which text it is
Answer(kind, file_name, excerpt, ellipsis, relevance, text) ==
    [kind |-> kind, file_name |-> file_name, excerpt |-> excerpt,
     ellipsis |-> ellipsis, relevance |-> relevance, text |-> text]

\* "Desculpe, ... na base de documentos ..." of chat
NoInfoChat == Answer("no_info_chat", "", <<>>, FALSE, 0, "")
\* "Desculpe, ... na documentacao ..." of generate_response_simple
NoInfoSimple == Answer("no_info_simple", "", <<>>, FALSE, 0, "")
NoAnswer == Answer("none", "", <<>>, FALSE, 0, "")

SIMPLE_KEY_CHARS == 100
GROQ_KEY_CHARS == 200
EXCERPT_CHARS == 300

\* the template of generate_response_simple around the best document
TemplateAnswer(best_doc) ==
    Answer("template", best_doc.metadata.file_name,
           Prefix(best_doc.content, EXCERPT_CHARS),
           Len(best_doc.content) > EXCERPT_CHARS,
           best_doc.similarity_score, "")

\* a key without the prefix of the generation path
SharedKey(kind, query, context_docs, chars) ==
    <<"shared", query, [k \in DOMAIN context_docs |->
                           Prefix(context_docs[k].content, chars)]>>

ContextKey(kind, query, context_docs, chars) ==
    <<kind, query, [k \in DOMAIN context_docs |->
                        Prefix(context_docs[k].content, chars)]>>

\* generate_response_simple(query, context_docs) with the given response
\* cache: the answer and the cache after the call
generate_response_simple(query, context_docs, rcache) ==
    LET key == ContextKey("simple", query, context_docs, SIMPLE_KEY_CHARS)
    IN
    IF context_docs = <<>> THEN [ret |-> NoInfoSimple, response_cache |-> rcache]
    ELSE IF CacheHas(rcache, key)
    THEN [ret |-> CacheGet(rcache, key), response_cache |-> rcache]
    ELSE LET response == TemplateAnswer(context_docs[1])
         IN  [ret |-> response,
              \* no size limit on this path
              response_cache |-> CacheSet(rcache, key, response)]

\* generate_response_groq without the test of an empty context
GroqWithoutEmptyTest(query, context_docs, rcache, outcome) ==
    LET key == ContextKey("groq", query, context_docs, GROQ_KEY_CHARS)
        none == [ret |-> NoAnswer, response_cache |-> rcache]
    IN
    IF ~groq_client THEN none
    ELSE IF CacheHas(rcache, key)
    THEN [ret |-> CacheGet(rcache, key), response_cache |-> rcache]
    ELSE IF outcome = "error" THEN none
    ELSE LET result == Answer("groq", "", <<>>, FALSE, 0, outcome)
         IN  [ret |-> result,
              response_cache |-> CachePut(rcache, key, result,
                                          RESPONSE_CACHE_MAX, RESPONSE_CACHE_DROP)]

\* generate_response_groq(query, context_docs) with the given response cache.
\* `outcome` is what the completion service does if it is called.  ret is
\* NoAnswer where the code returns None
generate_response_groq(query, context_docs, rcache, outcome) ==
    LET key == ContextKey("groq", query, context_docs, GROQ_KEY_CHARS)
        none == [ret |-> NoAnswer, response_cache |-> rcache]
    IN
    IF ~groq_client THEN none
    ELSE IF context_docs = <<>> THEN none
    ELSE IF CacheHas(rcache, key)
    THEN [ret |-> CacheGet(rcache, key), response_cache |-> rcache]
    ELSE IF outcome = "error" THEN none
    ELSE LET result == Answer("groq", "", <<>>, FALSE, 0, outcome)
         IN  [ret |-> result,
              response_cache |-> CachePut(rcache, key, result,
                                          RESPONSE_CACHE_MAX, RESPONSE_CACHE_DROP)]

\* no test at all: whatever the completion path returned is the answer
NeverFalsy(answer) == FALSE

\* a test for None alone, which lets an empty completion through
NoneOnly(answer) == answer.kind = "none"

\* `not response`: None or the empty string
Falsy(answer) == answer.kind = "none" \/ (answer.kind = "groq" /\ answer.text = "")

Source(doc) ==
    [file_name |-> doc.metadata.file_name, title |-> doc.metadata.title,
     content_type |-> doc.metadata.content_type,
     relevance_score |-> doc.similarity_score]

CHAT_SOURCES == 2

\* chat(query) with the given caches: the response record (without the
\* processing time) and the caches after the call
chat(query, simc, vcache, lru, rcache, outcome) ==
    LET s == search_similar_documents(query, DEFAULT_N_RESULTS, simc, vcache, lru)
        relevant_docs == s.ret
        caches == [similarity_cache |-> s.similarity_cache,
                   vector_cache |-> s.vector_cache,
                   tokenize_cache |-> s.tokenize_cache]
    IN
    IF relevant_docs = <<>>
    THEN [ret |-> [response |-> NoInfoChat, sources |-> <<>>],
          response_cache |-> rcache] @@ caches
    ELSE
    LET g == IF groq_client
             THEN generate_response_groq(query, relevant_docs, rcache, outcome)
             ELSE [ret |-> NoAnswer, response_cache |-> rcache]
        f == IF Falsy(g.ret)
             THEN generate_response_simple(query, relevant_docs, g.response_cache)
             ELSE g
        top == PySlice(relevant_docs, 0, CHAT_SOURCES)
    IN  [ret |-> [response |-> f.ret,
                  sources |-> [k \in DOMAIN top |-> Source(top[k])]],
         response_cache |-> f.response_cache] @@ caches

(***************************************************************************)
(* FastSimpleRAGEngine.index_documents and clear_cache                     *)
(***************************************************************************)
\* the chunk records of one document, in chunk order
ChunksOf(doc) ==
    LET chunks == optimized_chunk_text(doc.content, CHUNK_SIZE, CHUNK_OVERLAP)
    IN  [i \in DOMAIN chunks |->
            [file_name |-> doc.file_name, file_path |-> doc.file_path,
             title |-> doc.title, content |-> chunks[i],
             content_type |-> doc.content_type, chunk_index |-> i - 1]]

\* doc['content'] and the other keys can be read
WellFormed(doc) ==
    {"file_name", "file_path", "title", "content", "content_type"} \subseteq DOMAIN doc

\* the loop over the documents raises: the whole body is in one try block
Raises(docs) == \E i \in DOMAIN docs : ~WellFormed(docs[i])

\* the documents the loop has gone through when it ends or raises
Processed(docs) ==
    IF Raises(docs)
    THEN SubSeq(docs, 1, (CHOOSE i \in DOMAIN docs :
                            /\ ~WellFormed(docs[i])
                            /\ \A j \in 1..(i - 1) : WellFormed(docs[j])) - 1)
    ELSE docs

\* the chunk records of a list of documents, in document order
RECURSIVE ChunkRecords(_)
ChunkRecords(docs) ==
    IF docs = <<>> THEN <<>> ELSE ChunksOf(Head(docs)) \o ChunkRecords(Tail(docs))

WithId(rec, id) == [id |-> id] @@ rec

\* self.documents after the insert loop: doc_id counts from 0
MemoryRecords(recs) == [k \in DOMAIN recs |-> WithId(recs[k], k - 1)]

\* the table without its DELETE: the new rows after the rows already there
TableRowsKept(recs, seq) == db_rows \o [k \in DOMAIN recs |-> WithId(recs[k], seq + k)]

\* the table after DELETE and the INSERTs: ids go on from the last one
TableRows(recs, seq) == [k \in DOMAIN recs |-> WithId(recs[k], seq + k)]

Texts(recs) == [k \in DOMAIN recs |-> recs[k].content]

\* doc_norms of the fitted vectors
Norms(vectors) == [k \in DOMAIN vectors |-> Norm(vectors[k])]

\* what index_documents(docs) does to the engine and the files; `stored` as
\* in fit.  db_rows is the table as the engine's connection sees it: when the
\* loop raises, the DELETE and the INSERTs made so far stay in the open
\* transaction and nothing is fitted
Reindex(docs, stored) ==
    \E recs \in {ChunkRecords(Processed(docs))} :
    \E fitted \in {recs # <<>> /\ ~Raises(docs)} :
    \E f \in {IF fitted THEN fit(Texts(recs), stored) ELSE <<>>} :
    /\ db_rows' = TableRows(recs, db_seq)
    /\ db_seq' = db_seq + Len(recs)
    /\ documents' = MemoryRecords(recs)
    /\ IF fitted
       THEN /\ vocabulary' = f.vocabulary
            /\ document_frequencies' = f.document_frequencies
            /\ idf_values' = f.idf_values
            /\ tf_idf_vectors' = f.tf_idf_vectors
            /\ tfidf_documents' = f.documents
            /\ tokenize_cache' = f.tokenize_cache
            /\ model_file' = f.model_file
            /\ doc_norms' = Norms(f.tf_idf_vectors)
            /\ indexed' = TRUE
       ELSE UNCHANGED <<tfidfVars, tokenize_cache, model_file, doc_norms, indexed>>
    /\ UNCHANGED <<vector_cache, response_cache, similarity_cache, groq_client>>

\* _load_cached_index(): the rows of the table become the corpus and fit is
\* called on their texts; doc_norms.pkl, when there is one, holds the norms
\* of the last index this engine built
LoadCachedIndex(stored) ==
    \E f \in {fit(Texts(db_rows), stored)} :
    /\ documents' = db_rows
    /\ vocabulary' = f.vocabulary
    /\ document_frequencies' = f.document_frequencies
    /\ idf_values' = f.idf_values
    /\ tf_idf_vectors' = f.tf_idf_vectors
    /\ tfidf_documents' = f.documents
    /\ tokenize_cache' = f.tokenize_cache
    /\ model_file' = f.model_file
    /\ doc_norms' = IF model_file # <<>> THEN doc_norms ELSE Norms(f.tf_idf_vectors)
    /\ indexed' = TRUE
    /\ UNCHANGED <<db_rows, db_seq, vector_cache, response_cache, similarity_cache,
                   groq_client>>

\* a test that finds the documents cached when they are those of the call
\* before
SameAsLastCall(docs) == last.op = "index_documents" /\ last.arg = docs /\ last.ret

\* _check_documents_cached(documents): always False
check_documents_cached(docs) == FALSE

\* index_documents(docs): the cached index when the test finds one, the
\* whole indexing otherwise
IndexEffect(docs, stored) ==
    IF check_documents_cached(docs) THEN LoadCachedIndex(stored)
    ELSE Reindex(docs, stored)

\* the value index_documents(docs) returns: True when the cached index was
\* loaded, or when nothing was raised and there was a chunk to fit
IndexReturn(docs) ==
    check_documents_cached(docs) \/ (~Raises(docs) /\ ChunkRecords(docs) # <<>>)

\* index_documents(docs)
IndexDocuments(docs, stored) ==
    /\ n_index < MaxIndexCalls
    /\ IndexEffect(docs, stored)
    /\ n_index' = n_index + 1
    /\ last' = [op |-> "index_documents", arg |-> docs, ret |-> IndexReturn(docs)]
    /\ UNCHANGED <<httpVars, chunkVars, concVars, tokVars, n_chat>>

\* search_similar_documents(query, n_results)
Search(query, n_results) ==
    \E s \in {search_similar_documents(query, n_results, similarity_cache,
                                      vector_cache, tokenize_cache)} :
    /\ similarity_cache' = s.similarity_cache
    /\ vector_cache' = s.vector_cache
    /\ tokenize_cache' = s.tokenize_cache
    /\ last' = [op |-> "search_similar_documents", arg |-> <<query, n_results>>,
                ret |-> s.ret]
    /\ UNCHANGED <<tfidfVars, response_cache, corpusVars, groq_client, fileVars,
                   httpVars, n_index, chunkVars, concVars, tokVars, n_chat>>

\* what chat(query) does to the caches, c being what it computed
ChatEffect(c) ==
    /\ similarity_cache' = c.similarity_cache
    /\ vector_cache' = c.vector_cache
    /\ tokenize_cache' = c.tokenize_cache
    /\ response_cache' = c.response_cache
    /\ UNCHANGED <<tfidfVars, corpusVars, groq_client, fileVars>>

\* chat(query); `outcome` is what the completion service does if called
Chat(query, outcome) ==
    \E c \in {chat(query, similarity_cache, vector_cache, tokenize_cache,
                  response_cache, outcome)} :
    /\ ChatEffect(c)
    /\ last' = [op |-> "chat", arg |-> query, ret |-> c.ret]
    /\ UNCHANGED <<httpVars, n_index, chunkVars, concVars, tokVars, n_chat>>

\* a reset that also forgets that the engine is indexed
ResetEffect ==
    /\ response_cache' = <<>>
    /\ similarity_cache' = <<>>
    /\ vector_cache' = <<>>
    /\ indexed' = FALSE
    /\ UNCHANGED <<tfidfVars, tokenize_cache, documents, doc_norms, groq_client,
                   fileVars>>

\* what clear_cache() does
ClearEffect ==
    /\ response_cache' = <<>>
    /\ similarity_cache' = <<>>
    /\ vector_cache' = <<>>
    /\ UNCHANGED <<tfidfVars, tokenize_cache, corpusVars, groq_client, fileVars>>

\* clear_cache()
ClearCache ==
    /\ ClearEffect
    /\ last' = [op |-> "clear_cache", arg |-> <<>>, ret |-> <<>>]
    /\ UNCHANGED <<httpVars, n_index, chunkVars, concVars, tokVars, n_chat>>

\* whether the pickle of a fitted model can be written: the cache directory
\* is made in __init__ and is writable
StoreOutcomes == {TRUE}

\* the engine as a library: its public methods called one after the other
Next ==
    \/ \E docs \in DocLists, stored \in StoreOutcomes : IndexDocuments(docs, stored)
    \/ \E query \in Queries, n_results \in TopKs : Search(query, n_results)
    \/ \E query \in Queries, outcome \in GroqOutcomes : Chat(query, outcome)
    \/ ClearCache

Spec == Init /\ [][Next]_vars

(***************************************************************************)
(* backend/main.py: the startup event and the endpoints                    *)
(***************************************************************************)
\* what the startup event finds: no documents directory (DocumentProcessor()
\* raises), a directory gone by the time it is checked again, a directory
\* none of whose files can be read (every process_* call returns None, so no
\* document is left), a failure while the files are scanned, documents
\* whose indexing fails at the first statement on the database, or the
\* documents read
StartupEnvs ==
    {[kind |-> k, docs |-> <<>>] :
        k \in {"no_dir", "dir_vanished", "unreadable", "scan_error"}}
    \cup {[kind |-> "db_error", docs |-> <<DocA, DocB>>]}
    \cup {[kind |-> "docs", docs |-> d] : d \in DocLists}

\* startup_event()
Startup(env, stored) ==
    /\ ~started
    /\ started' = TRUE
    /\ rag_engine' = (env.kind # "no_dir")
    /\ IF env.kind = "docs" /\ env.docs # <<>>
       THEN /\ IndexEffect(env.docs, stored)
            /\ is_initialized' = IndexReturn(env.docs)
            /\ n_index' = n_index + 1
       ELSE IF env.kind = "db_error"
       \* index_documents raises before it has changed anything, logs and
       \* returns False
       THEN /\ is_initialized' = FALSE
            /\ n_index' = n_index + 1
            /\ UNCHANGED <<tfidfVars, cacheVars, corpusVars, groq_client, fileVars>>
       ELSE /\ is_initialized' = (env.kind \in {"dir_vanished", "unreadable", "docs"})
            /\ UNCHANGED <<tfidfVars, cacheVars, corpusVars, groq_client, fileVars,
                           n_index>>
    /\ last' = [op |-> "startup_event", arg |-> env, ret |-> <<>>]
    /\ UNCHANGED <<chunkVars, concVars, tokVars, n_chat>>

HttpError(status) == [status |-> status, response |-> NoAnswer, sources |-> <<>>]

\* POST /chat
ChatEndpoint(query, outcome) ==
    /\ started
    /\ IF ~is_initialized
       THEN /\ last' = [op |-> "chat_endpoint", arg |-> query, ret |-> HttpError(503)]
            /\ UNCHANGED <<tfidfVars, cacheVars, corpusVars, groq_client, fileVars>>
       ELSE IF ~rag_engine
       THEN /\ last' = [op |-> "chat_endpoint", arg |-> query, ret |-> HttpError(500)]
            /\ UNCHANGED <<tfidfVars, cacheVars, corpusVars, groq_client, fileVars>>
       ELSE \E c \in {chat(query, similarity_cache, vector_cache, tokenize_cache,
                           response_cache, outcome)} :
            /\ ChatEffect(c)
            /\ last' = [op |-> "chat_endpoint", arg |-> query,
                        ret |-> [status |-> 200, response |-> c.ret.response,
                                 sources |-> c.ret.sources]]
    /\ UNCHANGED <<httpVars, n_index, chunkVars, concVars, tokVars, n_chat>>

\* POST /clear-cache
ClearCacheEndpoint ==
    /\ started
    /\ IF rag_engine
       THEN /\ ClearEffect
            /\ last' = [op |-> "clear_cache_endpoint", arg |-> <<>>, ret |-> "success"]
       ELSE /\ last' = [op |-> "clear_cache_endpoint", arg |-> <<>>, ret |-> "warning"]
            /\ UNCHANGED <<tfidfVars, cacheVars, corpusVars, groq_client, fileVars>>
    /\ UNCHANGED <<httpVars, n_index, chunkVars, concVars, tokVars, n_chat>>

\* GET /status: documents_indexed is the row count of get_collection_info
StatusEndpoint ==
    /\ started
    /\ last' = [op |-> "status_endpoint", arg |-> <<>>,
                ret |-> [status |-> IF is_initialized THEN "ready" ELSE "initializing",
                         documents_indexed |->
                            IF is_initialized /\ rag_engine THEN Len(db_rows) ELSE 0]]
    /\ UNCHANGED <<tfidfVars, cacheVars, corpusVars, groq_client, fileVars, httpVars,
                   n_index, chunkVars, concVars, tokVars, n_chat>>

\* GET /health
HealthEndpoint ==
    /\ started
    /\ last' = [op |-> "health_endpoint", arg |-> <<>>,
                ret |-> [status |-> IF is_initialized THEN "healthy"
                                    ELSE "initializing"]]
    /\ UNCHANGED <<tfidfVars, cacheVars, corpusVars, groq_client, fileVars, httpVars,
                   n_index, chunkVars, concVars, tokVars, n_chat>>

\* the server process: the startup event, then requests
NextServer ==
    \/ \E env \in StartupEnvs, stored \in StoreOutcomes : Startup(env, stored)
    \/ \E query \in Queries, outcome \in GroqOutcomes : ChatEndpoint(query, outcome)
    \/ ClearCacheEndpoint
    \/ StatusEndpoint
    \/ HealthEndpoint

SpecServer == Init /\ [][NextServer]_vars

(***************************************************************************)
(* Indexing again and again, the model file written or not                 *)
(***************************************************************************)
NextIndex ==
    \/ \E docs \in IndexDocLists, stored \in BOOLEAN : IndexDocuments(docs, stored)
    \/ \E query \in IndexQueries : Search(query, DEFAULT_N_RESULTS)

SpecIndex == Init /\ [][NextIndex]_vars

(***************************************************************************)
(* A client that indexes once and never asks the same question twice       *)
(***************************************************************************)
MaxChats == 201

\* the n-th question: "aa" and fourteen binary digits of n, written with
\* "." and " "
QueryOf(n) ==
    <<"a", "a">> \o [i \in 1..14 |-> IF (n \div (2 ^ (i - 1))) % 2 = 1 THEN "." ELSE " "]

\* chat(query) with the next question
ChatNext(outcome) ==
    /\ n_chat < MaxChats
    /\ \E c \in {chat(QueryOf(n_chat), similarity_cache, vector_cache,
                      tokenize_cache, response_cache, outcome)} :
         /\ ChatEffect(c)
         /\ last' = [op |-> "chat", arg |-> QueryOf(n_chat), ret |-> c.ret]
    /\ n_chat' = n_chat + 1
    /\ UNCHANGED <<httpVars, n_index, chunkVars, concVars, tokVars>>

\* the completion service, where there is a client, answers
NextCache ==
    \/ ~indexed /\ IndexDocuments(<<DocA, DocB>>, TRUE)
    \/ indexed /\ ChatNext("g1")

SpecCache == Init /\ [][NextCache]_vars

(***************************************************************************)
(* Searches with a small and with the default n_results, over corpora with *)
(* different vocabularies                                                  *)
(***************************************************************************)
\* two chunks of the first corpus have "cc", the second corpus has no "cc"
SearchDocLists == {<<DocA, DocB, DocC>>, <<DocA, DocA2>>}

\* the empty string, a word of the first corpus only, and a word of no
\* corpus
SearchQueries == {<<>>, <<"c", "c">>, <<"z", "z">>}

SearchTopKs == {1, DEFAULT_N_RESULTS}

NextSearch ==
    \/ \E docs \in SearchDocLists : IndexDocuments(docs, TRUE)
    \/ \E query \in SearchQueries, n_results \in SearchTopKs :
          Search(query, n_results)

SpecSearch == Init /\ [][NextSearch]_vars

(***************************************************************************)
(* A client with a completion service that asks question after question    *)
(* until every cache has been full, and reads the oldest entry of a full    *)
(* cache again                                                              *)
(***************************************************************************)
MaxEvictChats == 1001

\* the n-th text tokenized before the engine was made: the six digits of n
\* to the base 8, written with the characters of WarmChars
WarmChars == <<"a", "b", "c", "z", "1", "2", " ", ".">>

WarmText(n) == [i \in 1..6 |-> WarmChars[((n \div (8 ^ (i - 1))) % 8) + 1]]

\* the lru_cache of tokenize belongs to the function, so all the texts the
\* process has tokenized so far are in it: four fewer than it can hold
WarmTexts == [n \in 1..(TOKENIZE_CACHE_MAX - 4) |-> WarmText(n)]

\* a new engine with a completion client in a process whose tokenization
\* cache is nearly full
InitEvict ==
    /\ vocabulary = <<>>
    /\ document_frequencies = <<>>
    /\ idf_values = <<>>
    /\ tf_idf_vectors = <<>>
    /\ tfidf_documents = <<>>
    /\ vector_cache = <<>>
    /\ tokenize_cache = WarmTexts
    /\ documents = <<>>
    /\ indexed = FALSE
    /\ doc_norms = <<>>
    /\ response_cache = <<>>
    /\ similarity_cache = <<>>
    /\ groq_client = TRUE
    /\ db_rows = <<>> /\ db_seq = 0 /\ model_file = <<>>
    /\ rag_engine = FALSE /\ is_initialized = FALSE /\ started = FALSE
    /\ last = NoCall
    /\ n_index = 0
    /\ n_chat = 0
    /\ ChunkIdle /\ ConcIdle /\ TokIdle

\* chat(query) with the next question; the completion service answers
ChatFresh ==
    /\ indexed
    /\ n_chat < MaxEvictChats
    /\ \E c \in {chat(QueryOf(n_chat), similarity_cache, vector_cache,
                      tokenize_cache, response_cache, "g1")} :
         /\ ChatEffect(c)
         /\ last' = [op |-> "chat", arg |-> QueryOf(n_chat), ret |-> c.ret]
    /\ n_chat' = n_chat + 1
    /\ UNCHANGED <<httpVars, n_index, chunkVars, concVars, tokVars>>

\* chat(query) with the question of the oldest entry of the full response
\* cache
ChatAgain ==
    /\ indexed
    /\ Len(response_cache) = RESPONSE_CACHE_MAX
    /\ \E query \in {response_cache[1].key[2]} :
       \E c \in {chat(query, similarity_cache, vector_cache, tokenize_cache,
                      response_cache, "g1")} :
         /\ ChatEffect(c)
         /\ last' = [op |-> "chat", arg |-> query, ret |-> c.ret]
    /\ UNCHANGED <<httpVars, n_index, chunkVars, concVars, tokVars, n_chat>>

\* search_similar_documents with the query of the oldest entry of the full
\* similarity cache
SearchAgain ==
    /\ indexed
    /\ Len(similarity_cache) = SIMILARITY_CACHE_MAX
    /\ Search(similarity_cache[1].key[1], similarity_cache[1].key[2])

\* tfidf.transform(text) with the text of the oldest entry of the full
\* vector cache
TransformAgain ==
    /\ Len(vector_cache) = VECTOR_CACHE_MAX
    /\ \E t \in {transform(vector_cache[1].key, vector_cache, tokenize_cache)} :
         /\ vector_cache' = t.vector_cache
         /\ tokenize_cache' = t.tokenize_cache
         /\ last' = [op |-> "transform", arg |-> vector_cache[1].key,
                     ret |-> t.vector]
    /\ UNCHANGED <<tfidfVars, response_cache, similarity_cache, corpusVars,
                   groq_client, fileVars, httpVars, n_index, chunkVars, concVars,
                   tokVars, n_chat>>

\* tfidf.tokenize(text) with the first text the full tokenization cache was
\* given, while it is the least recently used one
TokenizeAgain ==
    /\ Len(tokenize_cache) = TOKENIZE_CACHE_MAX
    /\ Head(tokenize_cache) = WarmText(1)
    /\ t_pc' = "done"
    /\ t_text' = WarmText(1)
    /\ t_tokens' = tokenize(WarmText(1))
    /\ tokenize_cache' = LruTouch(tokenize_cache, WarmText(1))
    /\ UNCHANGED <<tfidfVars, vector_cache, response_cache, similarity_cache,
                   corpusVars, groq_client, fileVars, httpVars, last, n_index,
                   chunkVars, concVars, n_chat>>

NextEvict ==
    \/ ~indexed /\ IndexDocuments(<<DocA, DocB>>, TRUE)
    \/ ChatFresh
    \/ ChatAgain
    \/ SearchAgain
    \/ TransformAgain
    \/ TokenizeAgain

SpecEvict == InitEvict /\ [][NextEvict]_vars

(***************************************************************************)
(* Corpora of one chunk and corpora whose chunks share their words         *)
(***************************************************************************)
IdfDocLists == {<<DocA>>, <<DocA, DocA2>>, <<DocA, DocB>>}

NextIdf ==
    \/ \E docs \in IdfDocLists : IndexDocuments(docs, TRUE)
    \/ \E query \in Queries : Search(query, DEFAULT_N_RESULTS)

SpecIdf == Init /\ [][NextIdf]_vars

(***************************************************************************)
(* Chats over a corpus where more than five chunks match a question        *)
(***************************************************************************)
Text_aa == <<"a", "a">>
Text_aa_cc == <<"a", "a", " ", "c", "c">>
Text_aa_bb_cc == <<"a", "a", " ", "b", "b", " ", "c", "c">>

\* six chunks with "aa", of different weights, and one without
SevenDocs ==
    <<Doc("d1.txt", Text_aa_bb), Doc("d2.txt", Text_aa), Doc("d3.txt", Text_aa_cc),
      Doc("d4.txt", Text_aa_bb_cc), Doc("d5.txt", Text_aa), Doc("d6.txt", Text_aa_bb),
      Doc("d7.txt", Text_bb_cc)>>

ChatDocLists == {SevenDocs, <<DocA, DocB>>}

\* the context a caller passes to a generation path: nothing, or what the
\* search finds for the query
Contexts(query) ==
    {<<>>, search_similar_documents(query, DEFAULT_N_RESULTS, similarity_cache,
                                    vector_cache, tokenize_cache).ret}

\* generate_response_groq(query, context_docs) called on its own
GenerateGroq(query, context_docs, outcome) ==
    \E g \in {generate_response_groq(query, context_docs, response_cache, outcome)} :
    /\ response_cache' = g.response_cache
    /\ last' = [op |-> "generate_response_groq", arg |-> <<query, context_docs>>,
                ret |-> g.ret]
    /\ UNCHANGED <<tfidfVars, similarity_cache, vector_cache, tokenize_cache,
                   corpusVars, groq_client, fileVars, httpVars, n_index,
                   chunkVars, concVars, tokVars, n_chat>>

\* generate_response_simple(query, context_docs) called on its own
GenerateSimple(query, context_docs) ==
    \E g \in {generate_response_simple(query, context_docs, response_cache)} :
    /\ response_cache' = g.response_cache
    /\ last' = [op |-> "generate_response_simple", arg |-> <<query, context_docs>>,
                ret |-> g.ret]
    /\ UNCHANGED <<tfidfVars, similarity_cache, vector_cache, tokenize_cache,
                   corpusVars, groq_client, fileVars, httpVars, n_index,
                   chunkVars, concVars, tokVars, n_chat>>

NextChat ==
    \/ \E docs \in ChatDocLists : IndexDocuments(docs, TRUE)
    \/ \E query \in Queries, outcome \in GroqOutcomes : Chat(query, outcome)

\* a question about a word of the corpus and one about a word that is not
\* in it
GenQueries == {<<"a", "a">>, <<"z", "z">>}

\* chat and the two generation paths, each also called on its own
NextGenerate ==
    \/ IndexDocuments(<<DocA, DocB>>, TRUE)
    \/ \E query \in GenQueries, outcome \in GroqOutcomes : Chat(query, outcome)
    \/ \E query \in GenQueries, outcome \in GroqOutcomes :
          \E context_docs \in Contexts(query) :
              GenerateGroq(query, context_docs, outcome)
    \/ \E query \in GenQueries :
          \E context_docs \in Contexts(query) : GenerateSimple(query, context_docs)

SpecGenerate == Init /\ [][NextGenerate]_vars

SpecChat == Init /\ [][NextChat]_vars

(***************************************************************************)
(* OptimizedTFIDF.tokenize on every short text                             *)
(***************************************************************************)
TokChars == {"a", "b", "A", "1", "_", "é", " ", "."}
MaxTokLen == 4

TokTexts == UNION {[1..n -> TokChars] : n \in 0..MaxTokLen}

InitTokenize ==
    /\ ProcessInit /\ ChunkIdle /\ ConcIdle
    /\ t_pc = "call"
    /\ t_text \in TokTexts
    /\ t_tokens = <<>>

\* tokenize(text), a miss of its lru_cache
TokenizeCall ==
    /\ t_pc = "call"
    /\ t_tokens' = tokenize(t_text)
    /\ tokenize_cache' = LruTouch(tokenize_cache, t_text)
    /\ t_pc' = "done"
    /\ UNCHANGED <<t_text, tfidfVars, vector_cache, response_cache, similarity_cache,
                   corpusVars, groq_client, fileVars, httpVars, last, n_index,
                   chunkVars, concVars, n_chat>>

NextTokenize == TokenizeCall

SpecTokenize == InitTokenize /\ [][NextTokenize]_vars

(***************************************************************************)
(* _optimized_chunk_text, one window of the while loop per step            *)
(***************************************************************************)
ChunkChars == {"a", " ", "."}
MaxTextLen == 8
MaxChunkSize == 7
MaxOverlap == 4
\* windows followed in one call
MaxWindows == 6

ChunkTexts == UNION {[1..n -> ChunkChars] : n \in 0..MaxTextLen}

InitChunk ==
    /\ ProcessInit /\ ConcIdle /\ TokIdle
    /\ c_pc = "call"
    /\ c_text \in ChunkTexts
    /\ c_size \in 1..MaxChunkSize
    /\ c_overlap \in 0..MaxOverlap
    /\ c_start = 0 /\ c_chunks = <<>> /\ c_windows = 0 /\ c_spans = <<>>

\* the call up to the while loop: short texts return at once
ChunkCall ==
    /\ c_pc = "call"
    /\ IF Len(c_text) <= c_size
       THEN c_pc' = "done" /\ c_chunks' = <<c_text>>
            /\ c_spans' = <<<<0, Len(c_text)>>>>
       ELSE c_pc' = "loop" /\ c_chunks' = <<>> /\ c_spans' = <<>>
    /\ UNCHANGED <<c_text, c_size, c_overlap, c_start, c_windows>>
    /\ UNCHANGED <<tfidfVars, cacheVars, corpusVars, groq_client, fileVars, httpVars,
                   last, n_index, concVars, tokVars, n_chat>>

\* one iteration of the while loop
ChunkStep ==
    /\ c_pc = "loop"
    /\ c_start < Len(c_text)
    /\ c_windows < MaxWindows
    /\ \E w \in {ChunkWindow(c_text, c_size, c_overlap, c_start, c_chunks)} :
         c_start' = w.start /\ c_chunks' = w.chunks
    /\ c_spans' = Append(c_spans, <<c_start, WindowEnd(c_text, c_size, c_start)>>)
    /\ c_windows' = c_windows + 1
    /\ UNCHANGED <<c_pc, c_text, c_size, c_overlap>>
    /\ UNCHANGED <<tfidfVars, cacheVars, corpusVars, groq_client, fileVars, httpVars,
                   last, n_index, concVars, tokVars, n_chat>>

\* the loop condition fails: return chunks
ChunkReturn ==
    /\ c_pc = "loop"
    /\ ~(c_start < Len(c_text))
    /\ c_pc' = "done"
    /\ UNCHANGED <<c_text, c_size, c_overlap, c_start, c_chunks, c_windows,
                   c_spans>>
    /\ UNCHANGED <<tfidfVars, cacheVars, corpusVars, groq_client, fileVars, httpVars,
                   last, n_index, concVars, tokVars, n_chat>>

NextChunk == ChunkCall \/ ChunkStep \/ ChunkReturn

SpecChunk == InitChunk /\ [][NextChunk]_vars

(***************************************************************************)
(* index_documents in one thread, statement by statement, and queries in   *)
(* another                                                                 *)
(***************************************************************************)
ConcDocLists == DocLists \ {<<>>}

\* DELETE FROM documents; self.documents = []
ConcBegin(docs) ==
    /\ i_pc = "idle"
    /\ n_index < MaxIndexCalls
    /\ n_index' = n_index + 1
    /\ i_pc' = "insert" /\ i_docs' = docs /\ i_texts' = <<>>
    /\ db_rows' = <<>>
    /\ documents' = <<>>
    /\ UNCHANGED <<tfidfVars, cacheVars, indexed, doc_norms, groq_client, db_seq,
                   model_file, httpVars, last, chunkVars, tokVars, n_chat>>

\* one round of `for doc in documents`: the chunks of the next document
ConcInsert ==
    /\ i_pc = "insert"
    /\ i_docs # <<>>
    /\ \E recs \in {ChunksOf(Head(i_docs))} :
         /\ db_rows' = db_rows \o TableRows(recs, db_seq)
         /\ db_seq' = db_seq + Len(recs)
         /\ documents' = documents \o
                [k \in DOMAIN recs |-> WithId(recs[k], Len(documents) + k - 1)]
         /\ i_texts' = i_texts \o Texts(recs)
    /\ i_docs' = Tail(i_docs)
    /\ UNCHANGED <<tfidfVars, cacheVars, indexed, doc_norms, groq_client, model_file,
                   httpVars, last, n_index, chunkVars, tokVars, n_chat, i_pc>>

\* commit(); with no text the call returns False
ConcCommit ==
    /\ i_pc = "insert"
    /\ i_docs = <<>>
    /\ IF i_texts # <<>>
       THEN i_pc' = "fit" /\ UNCHANGED last
       ELSE /\ i_pc' = "idle"
            /\ last' = [op |-> "index_documents", arg |-> <<>>, ret |-> FALSE]
    /\ UNCHANGED <<tfidfVars, cacheVars, corpusVars, groq_client, fileVars, httpVars,
                   n_index, chunkVars, tokVars, n_chat, i_docs, i_texts>>

\* fit up to the vocabulary, or the whole load from the cache file
ConcFitVocabulary ==
    /\ i_pc = "fit"
    /\ IF ModelCached(i_texts)
       THEN /\ vocabulary' = model_file[1].vocabulary
            /\ document_frequencies' = model_file[1].document_frequencies
            /\ tfidf_documents' = model_file[1].documents
            /\ tf_idf_vectors' = model_file[1].tf_idf_vectors
            /\ idf_values' = model_file[1].idf_values
            /\ i_pc' = "norms"
            /\ UNCHANGED tokenize_cache
       ELSE /\ tfidf_documents' = i_texts
            /\ tokenize_cache' = LruTouchAll(tokenize_cache, i_texts)
            /\ vocabulary' = FitVocabulary(i_texts)
            /\ i_pc' = "fit_df"
            /\ UNCHANGED <<document_frequencies, idf_values, tf_idf_vectors>>
    /\ UNCHANGED <<vector_cache, response_cache, similarity_cache, corpusVars,
                   groq_client, fileVars, httpVars, last, n_index, chunkVars, tokVars, n_chat,
                   i_docs, i_texts>>

\* the document frequency and IDF loops
ConcFitFrequencies ==
    /\ i_pc = "fit_df"
    /\ \E df \in {FitDocumentFrequencies(i_texts, document_frequencies)} :
         /\ document_frequencies' = df
         /\ idf_values' = FitIdfValues(Len(i_texts), df, idf_values)
    /\ i_pc' = "fit_vectors"
    /\ UNCHANGED <<vocabulary, tf_idf_vectors, tfidf_documents, cacheVars, corpusVars,
                   groq_client, fileVars, httpVars, last, n_index, chunkVars, tokVars, n_chat,
                   i_docs, i_texts>>

\* the vector loop and the write of the cache file
ConcFitVectors(stored) ==
    /\ i_pc = "fit_vectors"
    /\ \E vectors \in {FitVectors(i_texts, vocabulary, idf_values)} :
         /\ tf_idf_vectors' = vectors
         /\ model_file' =
              IF stored
              THEN <<[docs_hash |-> i_texts, vocabulary |-> vocabulary,
                      document_frequencies |-> document_frequencies,
                      documents |-> tfidf_documents, tf_idf_vectors |-> vectors,
                      idf_values |-> idf_values]>>
              ELSE model_file
    /\ i_pc' = "norms"
    /\ UNCHANGED <<vocabulary, document_frequencies, idf_values, tfidf_documents,
                   cacheVars, corpusVars, groq_client, db_rows, db_seq, httpVars,
                   last, n_index, chunkVars, tokVars, n_chat, i_docs, i_texts>>

\* the doc_norms loop
ConcNorms ==
    /\ i_pc = "norms"
    /\ doc_norms' = Norms(tf_idf_vectors)
    /\ i_pc' = "flag"
    /\ UNCHANGED <<tfidfVars, cacheVars, documents, indexed, groq_client, fileVars,
                   httpVars, last, n_index, chunkVars, tokVars, n_chat, i_docs, i_texts>>

\* self.indexed = True; return True
ConcFinish ==
    /\ i_pc = "flag"
    /\ indexed' = TRUE
    /\ i_pc' = "idle" /\ i_texts' = <<>>
    /\ last' = [op |-> "index_documents", arg |-> <<>>, ret |-> TRUE]
    /\ UNCHANGED <<tfidfVars, cacheVars, documents, doc_norms, groq_client, fileVars,
                   httpVars, n_index, chunkVars, tokVars, n_chat, i_docs>>

NextConc ==
    \/ \E docs \in ConcDocLists : ConcBegin(docs)
    \/ ConcInsert
    \/ ConcCommit
    \/ ConcFitVocabulary
    \/ ConcFitFrequencies
    \/ \E stored \in StoreOutcomes : ConcFitVectors(stored)
    \/ ConcNorms
    \/ ConcFinish
    \/ \E query \in Queries, n_results \in TopKs : Search(query, n_results)

SpecConc == Init /\ [][NextConc]_vars

(***************************************************************************)
(* Properties                                                              *)
(***************************************************************************)
\* what the call returns when every cache lookup misses
FreshSearch(query, n_results) ==
    search_similar_documents(query, n_results, <<>>, <<>>, <<>>).ret

\* the answer of chat when every cache lookup misses and the completion
\* service is not used or fails: the template answer or the canned message
FreshFallbackAnswer(query) ==
    chat(query, <<>>, <<>>, <<>>, <<>>, "error").ret.response

\* the records, the corpus, the vectors and the norms describe one corpus
CorpusWhole ==
    /\ Texts(documents) = tfidf_documents
    /\ Len(tf_idf_vectors) = Len(documents)
    /\ Len(doc_norms) = Len(documents)
    /\ Len(db_rows) = Len(documents)
    /\ \A i \in DOMAIN tf_idf_vectors : Len(tf_idf_vectors[i]) = Len(vocabulary)

\* the position in the corpus of the chunk a search result was made from
CorpusIndex(result) ==
    CHOOSE i \in DOMAIN documents :
        /\ documents[i].file_name = result.metadata.file_name
        /\ documents[i].chunk_index = result.metadata.chunk_index
        /\ documents[i].content = result.content

\* C1: when index_documents has returned, the vector cache, the similarity
\* cache and the response cache hold no entry written before the call: the
\* call writes none, so all three are empty.
C1_ReindexEmptiesCaches ==
    last.op = "index_documents" =>
        vector_cache = <<>> /\ similarity_cache = <<>> /\ response_cache = <<>>

\* C2: every search result and every template answer of chat equals what the
\* same call returns when every cache lookup is a miss.
C2_CachesNotNeeded ==
    /\ last.op = "search_similar_documents" =>
            last.ret = FreshSearch(last.arg[1], last.arg[2])
    /\ (last.op = "chat" /\ last.ret.response.kind = "template") =>
            last.ret.response = FreshFallbackAnswer(last.arg)

\* C3: document_frequencies[t] is the number of texts of the fitted corpus
\* that contain t, so it is between 1 and N, and no IDF is negative.
C3_FrequenciesOfCurrentCorpus ==
    \A w \in DOMAIN document_frequencies :
        /\ document_frequencies[w] =
              Cardinality({i \in DOMAIN tfidf_documents :
                              w \in SeqRange(tokenize(tfidf_documents[i]))})
        /\ document_frequencies[w] >= 1
        /\ document_frequencies[w] <= Len(tfidf_documents)
        /\ idf_values[w] >= 0

\* C4 as stated: the list a search computes is in descending score order and,
\* of two results with equal score, the chunk with the smaller corpus index
\* comes first.
C4_TiesInCorpusOrder ==
    \A query \in Queries, n_results \in TopKs :
        LET r == FreshSearch(query, n_results)
        IN  \A k \in 1..(Len(r) - 1) :
                /\ r[k].similarity_score >= r[k + 1].similarity_score
                /\ r[k].similarity_score = r[k + 1].similarity_score
                      => CorpusIndex(r[k]) < CorpusIndex(r[k + 1])

\* C4 as amended: the list a search computes is in descending score order and,
\* of two results with equal score, the chunk with the larger corpus index
\* (the one indexed later) comes first.
C4_TiesInReverseCorpusOrder ==
    \A query \in Queries, n_results \in TopKs :
        LET r == FreshSearch(query, n_results)
        IN  \A k \in 1..(Len(r) - 1) :
                /\ r[k].similarity_score >= r[k + 1].similarity_score
                /\ r[k].similarity_score = r[k + 1].similarity_score
                      => CorpusIndex(r[k]) > CorpusIndex(r[k + 1])

\* a search has just computed, from the corpus now indexed, a list whose
\* first two results have the same score
C4_TieReturned ==
    /\ last.op = "search_similar_documents"
    /\ Len(last.ret) >= 2
    /\ last.ret[1].similarity_score = last.ret[2].similarity_score
    /\ last.ret = FreshSearch(last.arg[1], last.arg[2])
    /\ CorpusIndex(last.ret[1]) # CorpusIndex(last.ret[2])

\* C5: every window of the chunker starts strictly after the start of the
\* window before it.
C5_WindowsAdvance == [][ChunkStep => c_start' > c_start]_vars

\* C6: when clear_cache has returned, the tokenization cache, the vector
\* cache, the similarity cache and the response cache are all empty.
C6_ClearEmptiesFourCaches ==
    last.op = "clear_cache" =>
        /\ tokenize_cache = <<>>
        /\ vector_cache = <<>>
        /\ similarity_cache = <<>>
        /\ response_cache = <<>>

\* C7: a query made before any index call has succeeded is answered with the
\* not-ready condition (503 at the endpoint), never with an ordinary answer.
C7_NotReadyBeforeIndex ==
    (last.op \in {"chat", "chat_endpoint"} /\ ~indexed) =>
        (last.op = "chat_endpoint" /\ last.ret.status = 503)

\* C8: after index_documents has returned failure on a ready engine, the
\* persisted records, the in-memory corpus, the vectors and the norms still
\* describe one corpus.
C8_FailedIndexKeepsCorpus ==
    (last.op = "index_documents" /\ last.ret = FALSE /\ indexed) => CorpusWhole

\* C9: a search that runs while the engine is ready, between the statements
\* of an index_documents call or not, finds a corpus list, a vocabulary, a
\* vector list and a norm list of one index generation.
C9_QueriesSeeOneGeneration ==
    [][((\E query \in Queries, n_results \in TopKs : Search(query, n_results))
            /\ indexed) => CorpusWhole]_vars

\* C10: the engine becomes ready only by an index_documents call that returns
\* success, stays ready once it is, and an index_documents call that returns
\* failure does not leave it ready for a corpus it does not hold.
C10_ReadyOnlyForHeldCorpus ==
    [][/\ (~indexed /\ indexed') =>
              (last'.op = "index_documents" /\ last'.ret = TRUE)
       /\ indexed => indexed'
       /\ (last'.op = "index_documents" /\ last'.ret = FALSE /\ indexed') =>
              (documents' # <<>> /\ Texts(documents') = tfidf_documents')]_vars

\* <<file_name, chunk_index, text>> of every chunk of the documents, in
\* document order then chunk order
RECURSIVE ExpectedChunks(_)
ExpectedChunks(docs) ==
    IF docs = <<>> THEN <<>>
    ELSE LET doc == Head(docs)
             chunks == optimized_chunk_text(doc.content, CHUNK_SIZE, CHUNK_OVERLAP)
         IN  [i \in DOMAIN chunks |-> <<doc.file_name, i - 1, chunks[i]>>]
             \o ExpectedChunks(Tail(docs))

StoredChunks(recs) ==
    [k \in DOMAIN recs |-> <<recs[k].file_name, recs[k].chunk_index, recs[k].content>>]

C12_TransformReproducesStored ==
    indexed =>
        \A i \in DOMAIN tfidf_documents :
            LET v == transform(tfidf_documents[i], vector_cache, tokenize_cache).vector
            IN  v = tf_idf_vectors[i] /\ Len(v) = Len(vocabulary)

\* C13: an index_documents call whose chunk texts are the corpus fitted last
\* leaves the vocabulary, the document frequencies, the IDF values and the
\* vectors as the first fit of that corpus made them.
C13_RefitChangesNothing ==
    [][(\E docs \in IndexDocLists, stored \in BOOLEAN :
            /\ IndexReturn(docs)
            /\ indexed
            /\ Texts(ChunkRecords(docs)) = tfidf_documents
            /\ IndexDocuments(docs, stored))
        => UNCHANGED <<vocabulary, document_frequencies, idf_values,
                       tf_idf_vectors>>]_vars

\* the maximal runs of a-z with at least two characters, as <<first, last>>
AlphaRuns(s) ==
    {r \in (1..Len(s)) \X (1..Len(s)) :
        /\ r[1] < r[2]
        /\ \A k \in r[1]..r[2] : s[k] \in AsciiLower
        /\ r[1] = 1 \/ s[r[1] - 1] \notin AsciiLower
        /\ r[2] = Len(s) \/ s[r[2] + 1] \notin AsciiLower}

\* the runs of a-z with at least two characters that have no letter of any
\* script, digit or underscore right before or right after them
WholeWordRuns(s) ==
    LET word == AsciiLower \cup AsciiUpper \cup NonAsciiLetters \cup Digits \cup {"_"}
    IN  {r \in (1..Len(s)) \X (1..Len(s)) :
            /\ r[1] < r[2]
            /\ \A k \in r[1]..r[2] : s[k] \in AsciiLower
            /\ r[1] = 1 \/ s[r[1] - 1] \notin word
            /\ r[2] = Len(s) \/ s[r[2] + 1] \notin word}

\* the texts of disjoint runs, in the order of the text
RunTexts(s, runs) ==
    [n \in 1..Cardinality(runs) |->
        LET r == CHOOSE q \in runs : Cardinality({x \in runs : x[1] < q[1]}) = n - 1
        IN  SubSeq(s, r[1], r[2])]

C15_ShortTextTrimmed ==
    (c_pc = "done" /\ Len(c_text) <= c_size) => c_chunks = <<Strip(c_text)>>

\* C16: no chunk the chunker returns is empty after trimming whitespace.
C16_NoEmptyChunk ==
    c_pc = "done" => \A k \in DOMAIN c_chunks : Strip(c_chunks[k]) # <<>>

\* C17: with overlap < chunk_size, the windows start in strictly increasing
\* order, no chunk is longer than chunk_size and, when the chunker returns,
\* every non-whitespace character of the text lies in some window.
C17_ChunksCoverText ==
    c_overlap < c_size =>
        /\ \A k \in 1..(Len(c_spans) - 1) : c_spans[k][1] < c_spans[k + 1][1]
        /\ \A k \in DOMAIN c_chunks : Len(c_chunks[k]) <= c_size
        /\ c_pc = "done" =>
              \A p \in DOMAIN c_text :
                  c_text[p] \notin Whitespace =>
                      \E k \in DOMAIN c_spans :
                          c_spans[k][1] < p /\ p <= c_spans[k][2]

\* C18: where the windows are sure to advance (overlap at most half of
\* chunk_size), every window after the first starts at the end of the window
\* before it minus overlap, that end is a position of the text, and the
\* window reaches further into the text than the one before it.
C18_WindowsOverlapInsideText ==
    2 * c_overlap <= c_size =>
        \A k \in 2..Len(c_spans) :
            /\ c_spans[k][1] = c_spans[k - 1][2] - c_overlap
            /\ c_spans[k - 1][2] <= Len(c_text)
            /\ Min(c_spans[k][2], Len(c_text)) > Min(c_spans[k - 1][2], Len(c_text))

\* C19: the tokenization cache, the vector cache, the similarity cache and
\* the response cache each hold no more entries than their size limit.
C19_CachesBounded ==
    /\ Len(tokenize_cache) <= TOKENIZE_CACHE_MAX
    /\ Len(vector_cache) <= VECTOR_CACHE_MAX
    /\ Len(similarity_cache) <= SIMILARITY_CACHE_MAX
    /\ Len(response_cache) <= RESPONSE_CACHE_MAX

\* C20: when index_documents was given a document that cannot be processed
\* beside documents that can, it returns True and the engine is ready with
\* the chunks of every document that could be processed, in the table, in the
\* in-memory corpus and in the fitted model.
C20_BadDocumentSkipped ==
    (last.op = "index_documents" /\ Raises(last.arg)
        /\ SelectSeq(last.arg, WellFormed) # <<>>) =>
        /\ last.ret = TRUE
        /\ indexed
        /\ StoredChunks(documents) = ExpectedChunks(SelectSeq(last.arg, WellFormed))
        /\ StoredChunks(db_rows) = ExpectedChunks(SelectSeq(last.arg, WellFormed))
        /\ tfidf_documents = Texts(documents)


\* a result list as search_similar_documents builds it for n_results: scores
\* descending, every score above the 0.01 threshold (a score is kept in
\* units of 0.01, rounded down, so a score above the threshold is at least
\* one unit), no chunk twice, at most n_results entries
WellFormedResults(results, n_results) ==
    /\ \A j, k \in DOMAIN results :
          j < k => results[j].similarity_score >= results[k].similarity_score
    /\ \A k \in DOMAIN results : results[k].similarity_score >= 1
    /\ \A j, k \in DOMAIN results :
          (/\ results[j].metadata.file_name = results[k].metadata.file_name
           /\ results[j].metadata.chunk_index = results[k].metadata.chunk_index)
          => j = k
    /\ Len(results) <= n_results

Recognized(text) == SeqRange(tokenize(text)) \cap SeqRange(vocabulary) # {}

\* C22: for the empty string and for every text none of whose tokens is in
\* the fitted vocabulary, transform returns the all-zero vector of the
\* vocabulary's dimension and search_similar_documents returns the empty
\* list.
C22_UnknownQueryIsEmpty ==
    \A query \in SearchQueries :
        ~Recognized(query) =>
            /\ transform(query, vector_cache, tokenize_cache).vector
                  = [i \in 1..Len(vocabulary) |-> 0]
            /\ \A n_results \in SearchTopKs :
                  search_similar_documents(query, n_results, similarity_cache,
                                           vector_cache, tokenize_cache).ret = <<>>


\* what the search of chat(query) returns in this state
Found(query) ==
    search_similar_documents(query, DEFAULT_N_RESULTS, similarity_cache,
                             vector_cache, tokenize_cache).ret

\* chat(query) in this state sends a request to the completion service:
\* there is a client, the search finds a chunk and the response cache has no
\* completion for the query and its context
ServiceCalled(query) ==
    /\ groq_client
    /\ Found(query) # <<>>
    /\ ~CacheHas(response_cache,
                 ContextKey("groq", query, Found(query), GROQ_KEY_CHARS))

C24_PathsKeepTheirEntries ==
    /\ \A i \in DOMAIN response_cache :
          \/ response_cache[i].key[1] = "groq" /\ response_cache[i].val.kind = "groq"
          \/ /\ response_cache[i].key[1] = "simple"
             /\ response_cache[i].val.kind = "template"
    /\ \A query \in Queries :
          Found(query) # <<>> =>
              /\ generate_response_simple(query, Found(query),
                                          response_cache).ret.kind = "template"
              /\ generate_response_groq(query, Found(query), response_cache,
                                        "error").ret.kind \in {"groq", "none"}

\* the response cache holds a completion and a template answer for the same
\* query and context
C24_BothPathsCached ==
    \E i, j \in DOMAIN response_cache :
        /\ response_cache[i].key[1] = "groq"
        /\ response_cache[j].key[1] = "simple"
        /\ response_cache[i].key[2] = response_cache[j].key[2]
        /\ response_cache[i].key[3] = response_cache[j].key[3]


\* C25: clear_cache leaves the rows of the documents table, the in-memory
\* corpus, the vocabulary, the IDF values, the TF-IDF vectors, the norms and
\* the indexed flag as they were.
C25_ClearKeepsTheIndex ==
    [][ClearCache =>
          UNCHANGED <<db_rows, documents, vocabulary, document_frequencies,
                      idf_values, tf_idf_vectors, tfidf_documents, doc_norms,
                      indexed>>]_vars

\* clear_cache has been called on an indexed engine
C25_ClearedWhileIndexed ==
    /\ last.op = "clear_cache"
    /\ indexed
    /\ documents # <<>>
    /\ vocabulary # <<>>


\* C26: a search, which transforms its query, leaves the vocabulary, the
\* document frequencies, the IDF values and the stored vectors as they were,
\* and the vector transform returns for the query has one entry per word of
\* the vocabulary, zero for every word that is not a token of the query.
C26_TransformKeepsTheModel ==
    [][\A query \in SearchQueries, n_results \in SearchTopKs :
          Search(query, n_results) =>
              /\ UNCHANGED tfidfVars
              /\ LET vector == transform(query, vector_cache, tokenize_cache).vector
                 IN  /\ Len(vector) = Len(vocabulary)
                     /\ \A i \in DOMAIN vector :
                           vocabulary[i] \notin SeqRange(tokenize(query))
                              => vector[i] = 0]_vars


\* C27: whatever state the engine is in (not indexed, indexed, indexed with
\* the corpus emptied by a failed re-index, completion service failing or
\* absent), chat returns a response record whose answer is a completion that
\* is not empty, a template answer or the canned no-relevant-information
\* message, with at most CHAT_SOURCES sources.
C27_ChatAlwaysAnswers ==
    last.op = "chat" =>
        /\ \/ last.ret.response.kind = "groq" /\ last.ret.response.text # ""
           \/ last.ret.response.kind = "template"
           \/ last.ret.response = NoInfoChat
        /\ Len(last.ret.sources) <= CHAT_SOURCES

\* chat has answered on an engine whose corpus a failed re-index emptied
\* while the vectors of the earlier corpus are still there
C27_AnsweredAfterFailedReindex ==
    /\ last.op = "chat"
    /\ indexed
    /\ documents = <<>>
    /\ tf_idf_vectors # <<>>
    /\ last.ret.response = NoInfoChat


\* e is a sentence end of the text: the position just after a '.', '!' or
\* '?' and the whole run of whitespace that follows it (the end of a match
\* of [.!?]\s+), counted in characters from the start of the text
IsSentenceEnd(text, e) ==
    /\ e \in 2..Len(text)
    /\ \E p \in 1..(e - 1) :
          /\ text[p] \in SentencePunct
          /\ \A i \in (p + 1)..e : text[i] \in Whitespace
    /\ e = Len(text) \/ text[e + 1] \notin Whitespace

\* the sentence ends strictly after the midpoint of the window that starts
\* at `start` and at or before its raw end
BreakCandidates(text, chunk_size, start) ==
    {e \in 2..Len(text) :
        /\ IsSentenceEnd(text, e)
        /\ 2 * e > 2 * start + chunk_size
        /\ e <= start + chunk_size}

\* C28: when the raw end of a window (start + chunk_size) lies before the
\* end of the text, the window ends at the sentence end nearest to the raw
\* end among those strictly after the window midpoint and at or before the
\* raw end, and at the raw end if there is none.
C28_BreakAtLastSentenceEnd ==
    [][(ChunkStep /\ c_start + c_size < Len(c_text)) =>
          LET end == c_spans'[Len(c_spans')][2]
              fits == BreakCandidates(c_text, c_size, c_start)
          IN  IF fits = {} THEN end = c_start + c_size
              ELSE end \in fits /\ \A e \in fits : e <= end]_vars

\* a window had two sentence ends to choose from and ends at the later one
C28_ChoseAmongTwo ==
    \E k \in DOMAIN c_spans :
        /\ c_pc = "loop"
        /\ c_spans[k][1] + c_size < Len(c_text)
        /\ Cardinality(BreakCandidates(c_text, c_size, c_spans[k][1])) >= 2
        /\ c_spans[k][2] < c_spans[k][1] + c_size


\* the `len` questions asked last, the n-th being the last one
RecentQueries(n, len) == [i \in 1..len |-> QueryOf(n - len + i)]

\* the text is in the tokenization cache
InTokenizeCache(lru, text) == \E i \in DOMAIN lru : lru[i] = text

\* a chat with a new question that made a dict cache drop entries left in
\* it exactly the questions asked last, the new one among them: the entries
\* dropped are the oldest-inserted ones, read again or not
DictEvictionFifo ==
    n_chat' = n_chat + 1 =>
        /\ Len(vector_cache') <= Len(vector_cache) =>
              [i \in DOMAIN vector_cache' |-> vector_cache'[i].key]
                 = RecentQueries(n_chat, VECTOR_CACHE_MAX + 1 - VECTOR_CACHE_DROP)
        /\ Len(similarity_cache') <= Len(similarity_cache) =>
              [i \in DOMAIN similarity_cache' |-> similarity_cache'[i].key[1]]
                 = RecentQueries(n_chat,
                                 SIMILARITY_CACHE_MAX + 1 - SIMILARITY_CACHE_DROP)
        /\ Len(response_cache') <= Len(response_cache) =>
              [i \in DOMAIN response_cache' |-> response_cache'[i].key[2]]
                 = RecentQueries(n_chat, RESPONSE_CACHE_MAX + 1 - RESPONSE_CACHE_DROP)

\* this step is the first eviction of the tokenization cache: a new question
\* is tokenized while the cache is full and still holds the two texts it was
\* given first
FirstTokenizeEviction ==
    /\ n_chat' = n_chat + 1
    /\ Len(tokenize_cache) = TOKENIZE_CACHE_MAX
    /\ InTokenizeCache(tokenize_cache, WarmText(1))
    /\ InTokenizeCache(tokenize_cache, WarmText(2))

\* C29 as stated: in every cache the entries an eviction drops are the
\* oldest-inserted ones, however recently they were read, and the entry
\* whose insertion triggered the eviction stays; for the tokenization cache,
\* its first eviction drops the text it was given first.
C29_EvictionIsFifo ==
    [][/\ DictEvictionFifo
       /\ FirstTokenizeEviction =>
             /\ ~InTokenizeCache(tokenize_cache', WarmText(1))
             /\ InTokenizeCache(tokenize_cache', QueryOf(n_chat))]_vars

\* C29 amended: the vector cache, the similarity cache and the response
\* cache drop their oldest-inserted entries, however recently they were
\* read, and keep the entry that triggered the eviction; the tokenization
\* cache drops its least recently used text: the text it was given first if
\* that text was not tokenized again, the text it was given second if it was.
C29_DictsFifoTokensLru ==
    [][/\ DictEvictionFifo
       /\ FirstTokenizeEviction =>
             /\ InTokenizeCache(tokenize_cache', WarmText(1)) = (t_pc = "done")
             /\ InTokenizeCache(tokenize_cache', WarmText(2)) = (t_pc # "done")
             /\ InTokenizeCache(tokenize_cache', QueryOf(n_chat))]_vars

\* the tokenization cache has dropped a text, and the text it was given
\* first is still there because it was tokenized again
C29_ReadTextSurvived ==
    /\ t_pc = "done"
    /\ last.op = "chat"
    /\ Len(tokenize_cache) = TOKENIZE_CACHE_MAX
    /\ InTokenizeCache(tokenize_cache, WarmText(1))
    /\ ~InTokenizeCache(tokenize_cache, WarmText(2))


\* startup could not get at the documents or could not index them
StartupFailed(env) ==
    env.kind \in {"no_dir", "dir_vanished", "unreadable", "scan_error", "db_error"}

\* C30: when startup_event has ended after a failure (the documents cannot
\* be got at, or indexing fails), the engine is not indexed and the server
\* is not ready, and a server that is not ready answers /status and /health
\* with "initializing" and /chat with 503.
C30_FailedStartupNotReady ==
    /\ (last.op = "startup_event" /\ StartupFailed(last.arg)) =>
          ~indexed /\ ~is_initialized
    /\ (started /\ ~is_initialized) =>
          /\ last.op = "status_endpoint" => last.ret.status = "initializing"
          /\ last.op = "health_endpoint" => last.ret.status = "initializing"
          /\ last.op = "chat_endpoint" => last.ret.status = 503


\* C31: on an indexed engine chat searches with n_results = 5 and returns
\* as sources the file name, title, content type and similarity score of the
\* first two results of that search, or of all of them when there are fewer,
\* in the order of the search.
C31_SourcesAreTopTwo ==
    [][\A query \in Queries, outcome \in GroqOutcomes :
          (Chat(query, outcome) /\ indexed) =>
              LET results == search_similar_documents(query, 5, similarity_cache,
                                 vector_cache, tokenize_cache).ret
                  n == IF Len(results) < 2 THEN Len(results) ELSE 2
              IN  /\ Len(results) <= 5
                  /\ last'.ret.sources =
                        [k \in 1..n |->
                            [file_name |-> results[k].metadata.file_name,
                             title |-> results[k].metadata.title,
                             content_type |-> results[k].metadata.content_type,
                             relevance_score |-> results[k].similarity_score]]]_vars

\* chat has returned two sources of a search that kept five of the six
\* chunks that match
C31_TwoOfFive ==
    /\ last.op = "chat"
    /\ Len(documents) = 7
    /\ Len(last.ret.sources) = 2
    /\ Len(Found(last.arg)) = 5
    /\ Len(FreshSearch(last.arg, 7)) = 6


\* answer generation on an empty list of chunks: chat when its search finds
\* nothing, and either generation path called with no context
EmptyGeneration(query, outcome) ==
    \/ Chat(query, outcome) /\ Found(query) = <<>>
    \/ GenerateGroq(query, <<>>, outcome)
    \/ GenerateSimple(query, <<>>)

\* C32 as stated: when the ranked chunk list is empty, chat,
\* generate_response_groq and generate_response_simple each return a fixed
\* no-relevant-information message, whatever the completion service would
\* have answered, and leave the response cache as it was.
C32_EmptyGivesTheMessage ==
    [][\A query \in GenQueries, outcome \in GroqOutcomes :
          EmptyGeneration(query, outcome) =>
              /\ LET r == IF last'.op = "chat" THEN last'.ret.response ELSE last'.ret
                 IN  r \in {NoInfoChat, NoInfoSimple}
              /\ response_cache' = response_cache]_vars

\* C32: when the ranked chunk list is empty, chat returns its fixed
\* no-relevant-information message with no sources,
\* generate_response_simple returns its own fixed message and
\* generate_response_groq returns None; whatever the completion service would
\* have answered, none of them uses it and none writes to the response cache.
C32_EmptyMakesNoCall ==
    [][\A query \in GenQueries, outcome \in GroqOutcomes :
          /\ (Chat(query, outcome) /\ Found(query) = <<>>) =>
                /\ last'.ret = [response |-> NoInfoChat, sources |-> <<>>]
                /\ response_cache' = response_cache
          /\ GenerateGroq(query, <<>>, outcome) =>
                /\ last'.ret = NoAnswer
                /\ response_cache' = response_cache
          /\ GenerateSimple(query, <<>>) =>
                /\ last'.ret = NoInfoSimple
                /\ response_cache' = response_cache]_vars

\* the completion path was called with no context on an engine that has a
\* client and an index, and returned None
C32_NoContextWithClient ==
    /\ groq_client
    /\ indexed
    /\ last.op = "generate_response_groq"
    /\ last.arg[2] = <<>>
    /\ last.ret = NoAnswer


\* C33: when the indexed corpus is that of two documents A ("aa bb") and B
\* ("bb cc"), the search for "aa", whose only token occurs in A alone,
\* returns a chunk of A first and no chunk of B, and the first source of the
\* chat response has A's file name.
C33_OnlyMatchingDocumentRanks ==
    (indexed /\ Texts(documents) = <<Text_aa_bb, Text_bb_cc>>) =>
        LET results == Found(<<"a", "a">>)
            response == chat(<<"a", "a">>, similarity_cache, vector_cache,
                             tokenize_cache, response_cache, "error").ret
        IN  /\ results # <<>>
            /\ results[1].metadata.file_name = "a.txt"
            /\ \A k \in DOMAIN results : results[k].metadata.file_name # "b.txt"
            /\ response.sources # <<>>
            /\ response.sources[1].file_name = "a.txt"


C35_IndexedListsAgree ==
    indexed =>
        /\ Len(tf_idf_vectors) = Len(documents)
        /\ Len(doc_norms) = Len(documents)
        /\ Len(db_rows) = Len(documents)


\* the words that occur in every chunk of the fitted corpus
InEveryChunk ==
    {w \in SeqRange(vocabulary) :
        \A i \in DOMAIN tfidf_documents : w \in SeqRange(tokenize(tfidf_documents[i]))}

\* C36: on an indexed engine a word that occurs in every chunk of the corpus
\* has IDF 0 and weight 0 in every stored vector; when the corpus is one
\* chunk, every stored vector is all zero and search_similar_documents
\* returns the empty list for every query.
C36_SharedWordsWeighNothing ==
    (indexed /\ Texts(documents) = tfidf_documents) =>
        /\ \A w \in InEveryChunk :
              /\ idf_values[w] = 0
              /\ \A i \in DOMAIN tf_idf_vectors, k \in DOMAIN vocabulary :
                    vocabulary[k] = w => tf_idf_vectors[i][k] = 0
        /\ Len(documents) = 1 =>
              /\ tf_idf_vectors = <<[k \in DOMAIN vocabulary |-> 0]>>
              /\ \A query \in Queries : Found(query) = <<>>

====
